---- MODULE Spec2Model ----
(***************************************************************************)
(* Model of src/app.py: the UniProt E/Q ratio ranking script.              *)
(*                                                                         *)
(* Python strings are modelled as sequences of one-character strings, so   *)
(* that split, strip, splitlines, startswith, "in" and count are computed  *)
(* character by character.  A float that results from dividing two counts  *)
(* is modelled as the pair <<numerator, denominator>> and compared by      *)
(* cross-multiplication; Python's None is the empty tuple.                 *)
(***************************************************************************)
EXTENDS Integers, Sequences, FiniteSets, TLC

VARIABLES
    pc,            \* position of the script run
    ac_input,      \* text of the input widget (line 48)
    ac_list,       \* parsed identifiers (line 51)
    idx,           \* 1-based position of the for loop in ac_list (line 65)
    ratio_results, \* list of result dicts (lines 52, 89)
    warnings,      \* messages passed to st.warning, in order (line 100)
    df,            \* the DataFrame after line 104
    exc,           \* name of the uncaught exception that ended the run, or ""
    fetch_log,     \* per processed identifier: what was fetched and what the iteration emitted
    ac,            \* identifier of a single aggregation (lines 66-100)
    fasta_response,\* response of line 69
    meta_response, \* response of line 70
    outcome,       \* what one iteration of the loop body produced
    sequence,      \* argument of analyze_sequence
    stats          \* value returned by analyze_sequence

vars == <<pc, ac_input, ac_list, idx, ratio_results, warnings, df, exc, fetch_log,
          ac, fasta_response, meta_response, outcome, sequence, stats>>

pipelineVars == <<ac_input, ac_list, idx, ratio_results, warnings, df, exc, fetch_log>>
itemVars == <<ac, fasta_response, meta_response, outcome>>
analyzeVars == <<sequence, stats>>

----------------------------------------------------------------------------
(* Bounds *)

MaxInput == 3
MaxText == 3
MaxSeq == 3

----------------------------------------------------------------------------
(* Strings *)

None == <<>>

Strings(alphabet, n) == UNION {[1..k -> alphabet] : k \in 0..n}

Whitespace == {" ", "\n", "\t"}

RECURSIVE lstrip(_)
lstrip(s) == IF s # <<>> /\ Head(s) \in Whitespace THEN lstrip(Tail(s)) ELSE s

RECURSIVE rstrip(_)
rstrip(s) ==
    IF s # <<>> /\ s[Len(s)] \in Whitespace THEN rstrip(SubSeq(s, 1, Len(s) - 1)) ELSE s

strip(s) == rstrip(lstrip(s))

Contains(s, c) == \E i \in 1..Len(s) : s[i] = c

FirstIndex(s, c) == CHOOSE i \in 1..Len(s) : s[i] = c /\ \A j \in 1..(i - 1) : s[j] # c

RECURSIVE split(_, _)
split(s, sep) ==
    IF ~Contains(s, sep) THEN <<s>>
    ELSE LET i == FirstIndex(s, sep)
         IN <<SubSeq(s, 1, i - 1)>> \o split(SubSeq(s, i + 1, Len(s)), sep)

RECURSIVE splitlines(_)
splitlines(s) ==
    IF s = <<>> THEN <<>>
    ELSE IF ~Contains(s, "\n") THEN <<s>>
    ELSE LET i == FirstIndex(s, "\n")
         IN <<SubSeq(s, 1, i - 1)>> \o splitlines(SubSeq(s, i + 1, Len(s)))

startswith(s, c) == s # <<>> /\ Head(s) = c

RECURSIVE count(_, _)
count(s, c) ==
    IF s = <<>> THEN 0 ELSE (IF Head(s) = c THEN 1 ELSE 0) + count(Tail(s), c)

RECURSIVE join(_)
join(pieces) == IF pieces = <<>> THEN <<>> ELSE Head(pieces) \o join(Tail(pieces))

Truthy(s) == s # <<>>

----------------------------------------------------------------------------
(* Identifier parsing, line 51 *)

RECURSIVE StripNonEmpty(_)
StripNonEmpty(pieces) ==
    IF pieces = <<>> THEN <<>>
    ELSE (IF Truthy(strip(Head(pieces))) THEN <<strip(Head(pieces))>> ELSE <<>>)
         \o StripNonEmpty(Tail(pieces))

parse_ac_list(text) == StripNonEmpty(split(text, ","))

----------------------------------------------------------------------------
(* Sequence analysis, lines 55-62 *)

(* Variant: a sequence without Q gets the ratio 0 instead of None *)
analyze_sequence_zero_default(seq) ==
    LET e == count(seq, "E")
        q == count(seq, "Q")
        total == Len(seq)
    IN [ratio |-> IF q # 0 THEN <<e, q>> ELSE <<0, 1>>,
        total |-> total,
        perc_e |-> IF total > 0 THEN <<e * 100, total>> ELSE None,
        perc_q |-> IF total > 0 THEN <<q * 100, total>> ELSE None]

(* Variant: the counts ignore case *)
analyze_sequence_caseless(seq) ==
    LET e == count(seq, "E") + count(seq, "e")
        q == count(seq, "Q") + count(seq, "q")
        total == Len(seq)
    IN [ratio |-> IF q # 0 THEN <<e, q>> ELSE None,
        total |-> total,
        perc_e |-> IF total > 0 THEN <<e * 100, total>> ELSE None,
        perc_q |-> IF total > 0 THEN <<q * 100, total>> ELSE None]

analyze_sequence(seq) ==
    LET e == count(seq, "E")
        q == count(seq, "Q")
        total == Len(seq)
    IN [ratio |-> IF q # 0 THEN <<e, q>> ELSE None,
        total |-> total,
        perc_e |-> IF total > 0 THEN <<e * 100, total>> ELSE None,
        perc_q |-> IF total > 0 THEN <<q * 100, total>> ELSE None]

(* Header stripping, lines 73-74 *)
RECURSIVE StripNonHeader(_)
StripNonHeader(lines) ==
    IF lines = <<>> THEN <<>>
    ELSE (IF ~startswith(Head(lines), ">") THEN <<strip(Head(lines))>> ELSE <<>>)
         \o StripNonHeader(Tail(lines))

extract_sequence(text) == join(StripNonHeader(splitlines(text)))

(* FASTA acceptance test, line 72 *)
fasta_accepted(resp) == resp.status_code = 200 /\ Contains(resp.text, ">")

----------------------------------------------------------------------------
(* Metadata documents.  A JSON object is a record whose field keys is the   *)
(* set of keys that are present; dict.get reads a field only when its key  *)
(* is present.  The documents range over the ways keys and list entries    *)
(* can be missing; a value that is present has the type the script expects *)
(* (no JSON null, no body that is not JSON).                               *)

NA == <<"N", "/", "A">>
EmptyDict == [keys |-> {}]

Get(d, k, default) == IF k \in d.keys THEN d[k] ELSE default

TextDicts ==
    {[keys |-> {}, value |-> <<>>], [keys |-> {"value"}, value |-> <<"d">>]}

TextLists ==
    {<<>>} \cup {<<t>> : t \in TextDicts}
           \cup {<<[keys |-> {"value"}, value |-> <<"d">>], [keys |-> {"value"}, value |-> <<"x">>]>>}

CommentDicts ==
    {[keys |-> {}, texts |-> <<>>]} \cup {[keys |-> {"texts"}, texts |-> tl] : tl \in TextLists}

CommentLists == {<<>>} \cup {<<c>> : c \in CommentDicts}

FullNameDicts ==
    {[keys |-> {}, value |-> <<>>], [keys |-> {"value"}, value |-> <<"n">>]}

RecommendedNameDicts ==
    {[keys |-> {}, fullName |-> [keys |-> {}, value |-> <<>>]]}
    \cup {[keys |-> {"fullName"}, fullName |-> f] : f \in FullNameDicts}

ProteinDescriptionDicts ==
    {[keys |-> {}, recommendedName |-> [keys |-> {}, fullName |-> [keys |-> {}, value |-> <<>>]]]}
    \cup {[keys |-> {"recommendedName"}, recommendedName |-> r] : r \in RecommendedNameDicts}

NoData ==
    [keys |-> {}, uniProtkbId |-> <<>>,
     proteinDescription |-> [keys |-> {}, recommendedName |-> [keys |-> {}, fullName |-> [keys |-> {}, value |-> <<>>]]],
     comments |-> <<>>]

MetaDatas ==
    {[keys |-> ks,
      uniProtkbId |-> IF "uniProtkbId" \in ks THEN <<"H">> ELSE NoData.uniProtkbId,
      proteinDescription |-> IF "proteinDescription" \in ks THEN p ELSE NoData.proteinDescription,
      comments |-> IF "comments" \in ks THEN c ELSE NoData.comments] :
        ks \in SUBSET {"uniProtkbId", "proteinDescription", "comments"},
        p \in ProteinDescriptionDicts, c \in CommentLists}

MetaResponses ==
    {[status_code |-> 404, data |-> NoData]} \cup {[status_code |-> 200, data |-> d] : d \in MetaDatas}

(* Metadata extraction, lines 78-85.  Indexing an empty list with [0]      *)
(* raises IndexError, which nothing in the script catches.                 *)
extract_metadata(id, resp) ==
    IF resp.status_code = 200
    THEN LET data == resp.data
             entry_name == Get(data, "uniProtkbId", id)
             protein_name ==
                 Get(Get(Get(Get(data, "proteinDescription", EmptyDict),
                             "recommendedName", EmptyDict),
                         "fullName", EmptyDict),
                     "value", NA)
             comments == Get(data, "comments", <<EmptyDict>>)
         IN IF Len(comments) = 0
            THEN [exc |-> "IndexError", entry_name |-> <<>>, protein_name |-> <<>>, description |-> <<>>]
            ELSE LET texts == Get(comments[1], "texts", <<EmptyDict>>)
                 IN IF Len(texts) = 0
                    THEN [exc |-> "IndexError", entry_name |-> <<>>, protein_name |-> <<>>,
                          description |-> <<>>]
                    ELSE [exc |-> "", entry_name |-> entry_name, protein_name |-> protein_name,
                          description |-> Get(texts[1], "value", <<>>)]
    ELSE [exc |-> "", entry_name |-> id, protein_name |-> NA, description |-> NA]

uniprot_link(id) == <<"https://www.uniprot.org/uniprotkb/">> \o id \o <<"/entry">>

warning_message(id) == <<"Invalid UniProt code or sequence not found: ">> \o id

----------------------------------------------------------------------------
(* Sequence responses *)

TextChars == {">", "\n", " ", "E", "Q"}

FastaResponsesOver(chars) ==
    {[status_code |-> 404, text |-> <<>>]}
    \cup {[status_code |-> 200, text |-> t] : t \in Strings(chars, MaxText)}

FastaResponses == FastaResponsesOver(TextChars)

(* The responses the whole run is explored with: texts without line breaks *)
(* and blanks, and one metadata document for each way the extraction ends. *)
PipelineTextChars == {">", "E", "Q"}

PipelineFastaResponses == FastaResponsesOver(PipelineTextChars)

PipelineMetaResponses ==
    {m \in MetaResponses :
        m.status_code = 200 =>
            \/ m.data.keys = {}
            \/ /\ m.data.keys = {"uniProtkbId", "proteinDescription", "comments"}
               /\ Get(Get(Get(m.data.proteinDescription, "recommendedName", EmptyDict),
                          "fullName", EmptyDict), "value", NA) # NA
               /\ m.data.comments \in
                      {<<>>, <<[keys |-> {"texts"}, texts |-> <<>>]>>,
                       <<[keys |-> {"texts"}, texts |-> <<[keys |-> {"value"}, value |-> <<"d">>]>>]>>}}

(* One iteration of the loop body, lines 72-100: the result dict appended, *)
(* the warning shown, or the exception that leaves the loop.               *)
process_identifier(id, fasta, meta) ==
    IF fasta_accepted(fasta)
    THEN LET a == analyze_sequence(extract_sequence(fasta.text))
             m == extract_metadata(id, meta)
         IN IF m.exc # ""
            THEN [kind |-> "raise", rows |-> <<>>, warned |-> <<>>, exc |-> m.exc]
            ELSE [kind |-> "row",
                  rows |-> <<[EntryName |-> m.entry_name,
                              ProteinName |-> m.protein_name,
                              Description |-> m.description,
                              Length |-> a.total,
                              PercE |-> a.perc_e,
                              PercQ |-> a.perc_q,
                              Ratio |-> a.ratio,
                              UniProtLink |-> uniprot_link(id)]>>,
                  warned |-> <<>>, exc |-> ""]
    ELSE [kind |-> "warning", rows |-> <<>>, warned |-> <<warning_message(id)>>, exc |-> ""]

----------------------------------------------------------------------------
(* Ranking, lines 103-104 *)

Columns ==
    {"Entry Name", "Protein Name", "Description", "Length (AA)", "% E", "% Q",
     "E/Q ratio", "UniProt Link"}

(* pd.DataFrame(list of dicts): one row per dict, labelled 0..n-1 in list   *)
(* order; the columns are the keys of the dicts, so an empty list gives a  *)
(* frame without columns.                                                  *)
DataFrame(results) ==
    [columns |-> IF results = <<>> THEN {} ELSE Columns,
     rows |-> [i \in 1..Len(results) |-> [index |-> i - 1, row |-> results[i]]]]

RECURSIVE dropna(_)
dropna(rows) ==
    IF rows = <<>> THEN <<>>
    ELSE (IF Head(rows).row.Ratio # None THEN <<Head(rows)>> ELSE <<>>) \o dropna(Tail(rows))

(* Order of two floats e1/q1 and e2/q2 with positive denominators *)
RatioLeq(a, b) == a[1] * b[2] <= b[1] * a[2]

Range(s) == {s[i] : i \in 1..Len(s)}

(* Variant: descending order *)
sort_values_descending(rows) ==
    {s \in [1..Len(rows) -> Range(rows)] :
        /\ \A i, j \in 1..Len(rows) : i # j => s[i] # s[j]
        /\ \A i \in 1..(Len(rows) - 1) : RatioLeq(s[i + 1].row.Ratio, s[i].row.Ratio)}

(* sort_values(by="E/Q ratio", ascending=True) is called without kind=, so  *)
(* pandas sorts with its default kind "quicksort", which puts the rows in  *)
(* ascending order of the key and leaves the order of rows with equal keys *)
(* unspecified: every ascending arrangement of the rows is a possible      *)
(* result.                                                                 *)
sort_values(rows) ==
    {s \in [1..Len(rows) -> Range(rows)] :
        /\ \A i, j \in 1..Len(rows) : i # j => s[i] # s[j]
        /\ \A i \in 1..(Len(rows) - 1) : RatioLeq(s[i].row.Ratio, s[i + 1].row.Ratio)}

----------------------------------------------------------------------------
(* The script run *)

InputChars == {",", " ", "A", "B"}

NoResponse == [status_code |-> 404, text |-> <<>>]
NoMeta == [status_code |-> 404, data |-> NoData]
NoOutcome == [kind |-> "none", rows |-> <<>>, warned |-> <<>>, exc |-> ""]
NoStats == [ratio |-> None, total |-> 0, perc_e |-> None, perc_q |-> None]

IdleItem ==
    /\ ac = <<>>
    /\ fasta_response = NoResponse
    /\ meta_response = NoMeta
    /\ outcome = NoOutcome

IdleAnalyze == sequence = <<>> /\ stats = NoStats

IdlePipeline ==
    /\ ac_input = <<>>
    /\ ac_list = <<>>
    /\ idx = 1
    /\ ratio_results = <<>>
    /\ warnings = <<>>
    /\ df = <<>>
    /\ exc = ""
    /\ fetch_log = <<>>

Init ==
    /\ pc = "start"
    /\ ac_input \in Strings(InputChars, MaxInput)
    /\ ac_list = <<>>
    /\ idx = 1
    /\ ratio_results = <<>>
    /\ warnings = <<>>
    /\ df = <<>>
    /\ exc = ""
    /\ fetch_log = <<>>
    /\ IdleItem
    /\ IdleAnalyze

(* Line 50 with a falsy ac_input: the whole block is skipped *)
SkipEmpty ==
    /\ pc = "start"
    /\ ~Truthy(ac_input)
    /\ pc' = "done"
    /\ UNCHANGED <<pipelineVars, itemVars, analyzeVars>>

(* Lines 50-52 *)
Parse ==
    /\ pc = "start"
    /\ Truthy(ac_input)
    /\ ac_list' = parse_ac_list(ac_input)
    /\ ratio_results' = <<>>
    /\ idx' = 1
    /\ pc' = "loop"
    /\ UNCHANGED <<ac_input, warnings, df, exc, fetch_log, itemVars, analyzeVars>>

(* One iteration of the loop of lines 65-100: both requests and the body *)
ProcessIdentifier ==
    /\ pc = "loop"
    /\ idx <= Len(ac_list)
    /\ \E fasta \in PipelineFastaResponses, meta \in PipelineMetaResponses :
         LET o == process_identifier(ac_list[idx], fasta, meta)
         IN /\ ratio_results' = ratio_results \o o.rows
            /\ warnings' = warnings \o o.warned
            /\ fetch_log' = Append(fetch_log,
                                   [status_code |-> fasta.status_code,
                                    marker |-> Contains(fasta.text, ">"),
                                    q_in_sequence |->
                                        Contains(extract_sequence(fasta.text), "Q"),
                                    kind |-> o.kind,
                                    nrows |-> Len(ratio_results') - Len(ratio_results),
                                    nwarned |-> Len(warnings') - Len(warnings)])
            /\ IF o.kind = "raise"
               THEN pc' = "raised" /\ exc' = o.exc /\ idx' = idx
               ELSE pc' = "loop" /\ exc' = exc /\ idx' = idx + 1
    /\ UNCHANGED <<ac_input, ac_list, df, itemVars, analyzeVars>>

(* Lines 103-104, after the loop: dropna raises KeyError when the frame    *)
(* has no column "E/Q ratio".                                              *)
Rank ==
    /\ pc = "loop"
    /\ idx > Len(ac_list)
    /\ LET frame == DataFrame(ratio_results)
       IN IF "E/Q ratio" \in frame.columns
          THEN /\ df' \in sort_values(dropna(frame.rows))
               /\ pc' = "present"
               /\ exc' = exc
          ELSE /\ df' = df
               /\ pc' = "raised"
               /\ exc' = "KeyError"
    /\ UNCHANGED <<ac_input, ac_list, idx, ratio_results, warnings, fetch_log, itemVars,
                   analyzeVars>>

(* Lines 106-137: table, bar plot and Excel export of df *)
Present ==
    /\ pc = "present"
    /\ pc' = "done"
    /\ UNCHANGED <<pipelineVars, itemVars, analyzeVars>>

Next == SkipEmpty \/ Parse \/ ProcessIdentifier \/ Rank \/ Present

Spec == Init /\ [][Next]_vars

----------------------------------------------------------------------------
(* One identifier on its own: the loop body applied to every response *)

ItemIds == {<<"A">>, <<"B">>}

InitItem ==
    /\ pc = "item"
    /\ IdlePipeline
    /\ IdleAnalyze
    /\ ac \in ItemIds
    /\ fasta_response \in FastaResponses
    /\ meta_response \in MetaResponses
    /\ outcome = NoOutcome

Aggregate ==
    /\ pc = "item"
    /\ outcome' = process_identifier(ac, fasta_response, meta_response)
    /\ pc' = "item_done"
    /\ UNCHANGED <<pipelineVars, ac, fasta_response, meta_response, analyzeVars>>

NextItem == Aggregate

SpecItem == InitItem /\ [][NextItem]_vars

----------------------------------------------------------------------------
(* analyze_sequence on its own, over every string of the alphabet *)

SeqChars == {"E", "Q", "e", "q", "A"}

InitAnalyze ==
    /\ pc = "analyze"
    /\ IdlePipeline
    /\ IdleItem
    /\ sequence \in Strings(SeqChars, MaxSeq)
    /\ stats = NoStats

Analyze ==
    /\ pc = "analyze"
    /\ stats' = analyze_sequence(sequence)
    /\ pc' = "analyzed"
    /\ UNCHANGED <<pipelineVars, itemVars, sequence>>

NextAnalyze == Analyze

SpecAnalyze == InitAnalyze /\ [][NextAnalyze]_vars

----------------------------------------------------------------------------
(* Properties *)

Terminated == pc \in {"done", "raised"}

(* The fetch of position i reported the sequence as not found *)
NotFound(i) == fetch_log[i].status_code # 200

(* Label in the DataFrame of the row that position i appended *)
RowLabel(i) == Cardinality({j \in 1..i : fetch_log[j].nrows = 1}) - 1

LabelsIn(frame) == {frame[k].index : k \in 1..Len(frame)}

(* C1: the run never fails as a whole: whatever the input and the fetch    *)
(* outcomes, no exception ends it before ranking and presenting.           *)
C1_RunNeverFails == pc # "raised" /\ exc = ""

(* C2: for an identifier whose sequence is found, metadata that is absent  *)
(* or lacks fields never prevents the result record: a record is emitted,  *)
(* no error leaves the processing, and absent metadata gives the sentinel  *)
(* defaults.                                                               *)
C2_MetadataNeverBlocksResult ==
    (pc = "item_done" /\ fasta_accepted(fasta_response)) =>
        /\ outcome.kind = "row"
        /\ outcome.exc = ""
        /\ Len(outcome.rows) = 1
        /\ meta_response.status_code # 200 =>
              /\ outcome.rows[1].EntryName = ac
              /\ outcome.rows[1].ProteinName = NA
              /\ outcome.rows[1].Description = NA

(* C3: when the run has ended, every identifier whose fetch was NotFound   *)
(* has exactly one warning and no result record, and every identifier      *)
(* after it in the list has been fetched and processed to a record or a    *)
(* warning.                                                                *)
C3_NotFoundIsIsolated ==
    Terminated =>
        \A i \in 1..Len(fetch_log) :
            NotFound(i) =>
                /\ fetch_log[i].nwarned = 1
                /\ fetch_log[i].nrows = 0
                /\ \A j \in (i + 1)..Len(ac_list) :
                      /\ j <= Len(fetch_log)
                      /\ fetch_log[j].kind \in {"row", "warning"}

(* C4: in the table handed to the presenter every row has a defined ratio, *)
(* adjacent rows are non-decreasing in ratio, and the rows are exactly the *)
(* collected records with a defined ratio, each exactly once.              *)
C4_RankedTableSorted ==
    pc = "present" =>
        /\ \A k \in 1..Len(df) : df[k].row.Ratio # None
        /\ \A k \in 1..(Len(df) - 1) : RatioLeq(df[k].row.Ratio, df[k + 1].row.Ratio)
        /\ \A k \in 1..Len(df) :
              /\ df[k].index \in 0..(Len(ratio_results) - 1)
              /\ df[k].row = ratio_results[df[k].index + 1]
        /\ \A n \in 1..Len(ratio_results) :
              ratio_results[n].Ratio # None =>
                  Cardinality({k \in 1..Len(df) : df[k].index = n - 1}) = 1
        /\ Len(df) = Cardinality({n \in 1..Len(ratio_results) : ratio_results[n].Ratio # None})

C4_Witness ==
    /\ pc = "present"
    /\ Len(df) = 2
    /\ df[1].index = 1
    /\ df[2].index = 0
    /\ ~RatioLeq(df[2].row.Ratio, df[1].row.Ratio)

(* C5: the ranking is stable: two rows with equal ratios appear in the     *)
(* table in the order of their identifiers in the input.                   *)
C5_SortIsStable ==
    pc = "present" =>
        \A k, l \in 1..Len(df) :
            (k < l /\ RatioLeq(df[k].row.Ratio, df[l].row.Ratio)
                   /\ RatioLeq(df[l].row.Ratio, df[k].row.Ratio))
                => df[k].index < df[l].index

(* C6: an empty or all-blank input (only whitespace and commas) is a       *)
(* no-op: nothing is fetched, nothing is warned, the table is empty and no *)
(* error is raised.                                                        *)
AllBlank(text) == \A i \in 1..Len(text) : text[i] \in Whitespace \cup {","}

C6_BlankInputIsNoOp ==
    AllBlank(ac_input) =>
        /\ pc # "raised"
        /\ exc = ""
        /\ fetch_log = <<>>
        /\ warnings = <<>>
        /\ df = <<>>

(* C7: a fetch that returns sequence text (status 200, at least one        *)
(* residue letter) is Found, with or without a header line: no warning is  *)
(* produced, and the record carries the statistics of the concatenated     *)
(* trimmed lines that do not begin with ">".                               *)
HasResidue(text) == \E i \in 1..Len(text) : text[i] \in {"E", "Q"}

C7_HeaderlessTextIsFound ==
    (pc = "item_done" /\ fasta_response.status_code = 200 /\ HasResidue(fasta_response.text)) =>
        /\ outcome.kind # "warning"
        /\ outcome.kind = "row" =>
              /\ outcome.rows[1].Length = Len(extract_sequence(fasta_response.text))
              /\ outcome.rows[1].Ratio = analyze_sequence(extract_sequence(fasta_response.text)).ratio

(* C8: a found identifier whose sequence has no Q (also the empty          *)
(* sequence) gets an undefined ratio, is absent from the ranked table and  *)
(* causes no warning; a warning is only ever caused by a response that was *)
(* not accepted as a sequence.                                             *)
ZeroQ(row) == row.PercQ = None \/ row.PercQ[1] = 0

C8_UndefinedRatioExcludedSilently ==
    \A i \in 1..Len(fetch_log) :
        /\ (fetch_log[i].nrows = 1 /\ ZeroQ(ratio_results[RowLabel(i) + 1])) =>
              /\ ratio_results[RowLabel(i) + 1].Ratio = None
              /\ fetch_log[i].nwarned = 0
              /\ pc \in {"present", "done"} => RowLabel(i) \notin LabelsIn(df)
        /\ fetch_log[i].nwarned # 0 =>
              (fetch_log[i].status_code # 200 \/ ~fetch_log[i].marker)

C8_Witness ==
    /\ pc = "present"
    /\ Len(ratio_results) = 2
    /\ ratio_results[1].Length > 0
    /\ ZeroQ(ratio_results[1])
    /\ ratio_results[2].Length = 0
    /\ ratio_results[2].Ratio = None
    /\ df = <<>>
    /\ warnings = <<>>

(* C9: analyze_sequence returns the character count of its argument as the *)
(* length, a ratio that is undefined exactly when the argument has no "Q"  *)
(* and is otherwise the number of "E" over the number of "Q" (exact case), *)
(* percentages that are undefined exactly when the length is zero, and the *)
(* same result when called again.                                          *)
Occurrences(s, c) == Cardinality({i \in 1..Len(s) : s[i] = c})

C9_AnalyzeSequence ==
    pc = "analyzed" =>
        /\ stats.total = Len(sequence)
        /\ (stats.ratio = None) <=> (Occurrences(sequence, "Q") = 0)
        /\ Occurrences(sequence, "Q") > 0 =>
              stats.ratio = <<Occurrences(sequence, "E"), Occurrences(sequence, "Q")>>
        /\ (stats.perc_e = None) <=> (Len(sequence) = 0)
        /\ (stats.perc_q = None) <=> (Len(sequence) = 0)
        /\ Len(sequence) > 0 =>
              /\ stats.perc_e = <<Occurrences(sequence, "E") * 100, Len(sequence)>>
              /\ stats.perc_q = <<Occurrences(sequence, "Q") * 100, Len(sequence)>>
        /\ analyze_sequence(sequence) = stats

C9_Witness ==
    /\ pc = "analyzed"
    /\ sequence = <<"E", "q", "Q">>
    /\ stats.ratio = <<1, 1>>
    /\ stats.total = 3

(* C10: the identifier list is the comma-separated pieces of the input,    *)
(* trimmed, without the empty ones, in order and with duplicates kept; and *)
(* when the run has ended every position of the list has been fetched and  *)
(* processed, and each identifier has as many table rows as it has         *)
(* positions that were found with a defined ratio.                         *)
CommaBounds(text) == {0, Len(text) + 1} \cup {i \in 1..Len(text) : text[i] = ","}

Trimmed(text, lo, hi) ==
    LET solid == {i \in lo..hi : text[i] \notin Whitespace}
    IN IF solid = {} THEN <<>>
       ELSE SubSeq(text, CHOOSE i \in solid : \A j \in solid : i <= j,
                         CHOOSE i \in solid : \A j \in solid : j <= i)

(* The pieces that are left, as <<start bound, identifier>> in input order *)
Pieces(text) ==
    {<<b, Trimmed(text, b + 1, (CHOOSE n \in CommaBounds(text) :
                                    n > b /\ \A m \in CommaBounds(text) : m > b => n <= m) - 1)>> :
        b \in CommaBounds(text) \ {Len(text) + 1}}

IsParseOf(list, text) ==
    LET kept == {p \in Pieces(text) : p[2] # <<>>}
    IN /\ Len(list) = Cardinality(kept)
       /\ \A p \in kept :
             list[Cardinality({r \in kept : r[1] <= p[1]})] = p[2]

C10_ParsedListProcessedInFull ==
    (Terminated /\ Truthy(ac_input)) =>
        /\ IsParseOf(ac_list, ac_input)
        /\ Len(fetch_log) = Len(ac_list)
        /\ \A x \in Range(ac_list) :
              Cardinality({k \in 1..Len(df) : df[k].row.UniProtLink = uniprot_link(x)})
                  = Cardinality({i \in 1..Len(ac_list) :
                                    /\ ac_list[i] = x
                                    /\ fetch_log[i].status_code = 200
                                    /\ fetch_log[i].marker
                                    /\ fetch_log[i].q_in_sequence})

====
